---- MODULE Spec2Model ----
(***************************************************************************)
(* Model of the four FastAPI services of financial-analysis-endpoints:     *)
(*   company_analysis_api1.py      POST /company_analysis                  *)
(*   historical_stock_data_api1.py POST /historical_stock                  *)
(*   company_info_api1.py          GET  /company/{symbol}                  *)
(*   stock_data_api1.py            GET  /stock/{symbol}                    *)
(*                                                                         *)
(* Strings are sequences of tokens.  A token is a single character (the    *)
(* text a client or the provider supplies, and the digits of a status      *)
(* code) or one literal chunk of a message of the source, none of which    *)
(* contains a digit.  Numbers of a response are integers counted in        *)
(* hundredths (round(x, 2)), wrapped in a record that also represents      *)
(* None, NaN and the infinities of float arithmetic.                       *)
(***************************************************************************)
EXTENDS Integers, Sequences, FiniteSets, TLC

VARIABLES
    pc,            \* position of the request being handled
    endpoint,      \* which service handles it
    request,       \* [symbol, start_date, end_date]
    ticker,        \* whether yf.Ticker(symbol) has been created for the request
    calls,         \* the provider accesses made for the request, in order
    hist_data,     \* Close column of the DataFrame ticker.history returned
    info,          \* what ticker.info returned
    raised,        \* the exception in flight, or NoExc
    provExc,       \* the exception a provider access of this request raised
    response,      \* the HTTP response, or NoResponse
    fn, arg, ret   \* a direct call of a validator: name, argument, result

vars == <<pc, endpoint, request, ticker, calls,
          hist_data, info, raised, provExc, response, fn, arg, ret>>

-----------------------------------------------------------------------------
(* Bounds of the model *)

\* longest symbol string tried on validate_symbol
MaxSymLen == 4
\* longest price series enumerated value by value
MaxShort == 3
\* largest close price (whole currency units) of a series
MaxClose == 3

-----------------------------------------------------------------------------
(* Characters and str methods *)

Digits == {"0", "1", "2", "3", "4", "5", "6", "7", "8", "9"}

Letters == {"A", "B", "x"}

DigitVal(c) ==
    CASE c = "0" -> 0 [] c = "1" -> 1 [] c = "2" -> 2 [] c = "3" -> 3
      [] c = "4" -> 4 [] c = "5" -> 5 [] c = "6" -> 6 [] c = "7" -> 7
      [] c = "8" -> 8 [] c = "9" -> 9

\* str.isalnum() of one character
IsAlnumChar(c) == c \in Digits \cup Letters

\* str.isalnum(): every character alphanumeric and at least one character
IsAlnum(s) == Len(s) > 0 /\ \A i \in 1..Len(s) : IsAlnumChar(s[i])

\* position of the first sep in s, 0 when there is none
RECURSIVE FindChar(_, _, _)
FindChar(s, sep, i) ==
    IF i > Len(s) THEN 0
    ELSE IF s[i] = sep THEN i
    ELSE FindChar(s, sep, i + 1)

\* str.split(sep): the pieces between the separators, empty pieces kept
RECURSIVE Split(_, _)
Split(s, sep) ==
    LET p == FindChar(s, sep, 1) IN
    IF p = 0 THEN <<s>>
    ELSE <<SubSeq(s, 1, p - 1)>> \o Split(SubSeq(s, p + 1, Len(s)), sep)

\* sep in s
Contains(s, sep) == \E i \in 1..Len(s) : s[i] = sep

\* validate_symbol of a mutated build: the segments are not checked
ValidateSymbolNoParts(symbol) == IsAlnum(symbol) \/ Contains(symbol, ".")

validate_symbol(symbol) ==
    \/ IsAlnum(symbol)
    \/ /\ Contains(symbol, ".")
       /\ LET parts == Split(symbol, ".") IN
          \A i \in 1..Len(parts) : IsAlnum(parts[i])

-----------------------------------------------------------------------------
(* datetime.strptime(s, "%Y-%m-%d") *)

ValueError == [err |-> "ValueError", year |-> 0, month |-> 0, day |-> 0]

IsLeap(y) == (y % 4 = 0 /\ y % 100 # 0) \/ y % 400 = 0

DaysInMonth(y, m) ==
    IF m = 2 THEN (IF IsLeap(y) THEN 29 ELSE 28)
    ELSE IF m \in {4, 6, 9, 11} THEN 30
    ELSE 31

\* the regular expression of %m: 1[0-2] | 0[1-9] | [1-9]
MatchMonth(t) ==
    \/ Len(t) = 2 /\ t[1] = "1" /\ t[2] \in {"0", "1", "2"}
    \/ Len(t) = 2 /\ t[1] = "0" /\ t[2] \in Digits \ {"0"}
    \/ Len(t) = 1 /\ t[1] \in Digits \ {"0"}

\* the regular expression of %d: 3[0-1] | [1-2]\d | 0[1-9] | [1-9] | " "[1-9]
MatchDay(t) ==
    \/ Len(t) = 2 /\ t[1] = "3" /\ t[2] \in {"0", "1"}
    \/ Len(t) = 2 /\ t[1] \in {"1", "2"} /\ t[2] \in Digits
    \/ Len(t) = 2 /\ t[1] = "0" /\ t[2] \in Digits \ {"0"}
    \/ Len(t) = 1 /\ t[1] \in Digits \ {"0"}
    \/ Len(t) = 2 /\ t[1] = " " /\ t[2] \in Digits \ {"0"}

\* the regular expression of %Y: \d\d\d\d
MatchYear(t) == Len(t) = 4 /\ \A i \in 1..4 : t[i] \in Digits

\* int() of a matched group (a leading space, as in " 5", is skipped)
RECURSIVE ToInt(_)
ToInt(t) ==
    IF Len(t) = 0 THEN 0
    ELSE IF t[Len(t)] \in Digits
         THEN 10 * ToInt(SubSeq(t, 1, Len(t) - 1)) + DigitVal(t[Len(t)])
         ELSE ToInt(SubSeq(t, 1, Len(t) - 1))

\* the whole of s is Y "-" m "-" d with m of ml and d of dl characters
MatchesFormat(s, ml, dl) ==
    /\ Len(s) = 4 + 1 + ml + 1 + dl
    /\ MatchYear(SubSeq(s, 1, 4))
    /\ s[5] = "-"
    /\ MatchMonth(SubSeq(s, 6, 5 + ml))
    /\ s[6 + ml] = "-"
    /\ MatchDay(SubSeq(s, 7 + ml, 6 + ml + dl))

\* the groups of the match converted by int(), or ValueError when s does not
\* match or data remains unconverted
StrptimeMatch(s) ==
    IF \E ml \in {1, 2}, dl \in {1, 2} : MatchesFormat(s, ml, dl)
    THEN LET ml == CHOOSE l \in {1, 2} : \E dl \in {1, 2} : MatchesFormat(s, l, dl)
             dl == CHOOSE l \in {1, 2} : MatchesFormat(s, ml, l)
         IN [err |-> "none", year |-> ToInt(SubSeq(s, 1, 4)),
             month |-> ToInt(SubSeq(s, 6, 5 + ml)),
             day |-> ToInt(SubSeq(s, 7 + ml, 6 + ml + dl))]
    ELSE ValueError

\* the parsed date, or ValueError: no match, unconverted data, or a date
\* datetime() refuses (year 0, a day the month does not have)
strptime(s) ==
    LET d == StrptimeMatch(s) IN
    IF d.err = "none" /\ d.year >= 1 /\ d.day <= DaysInMonth(d.year, d.month)
    THEN d
    ELSE ValueError

validate_date(date_str) == strptime(date_str).err = "none"

\* datetime < datetime
DateLess(a, b) ==
    \/ a.year < b.year
    \/ a.year = b.year /\ a.month < b.month
    \/ a.year = b.year /\ a.month = b.month /\ a.day < b.day

-----------------------------------------------------------------------------
(* Floats: a number, NaN, +inf, or Python's None *)

\* v / d; a metric is counted in hundredths with d = 1
Num(v) == [k |-> "num", v |-> v, d |-> 1]
Frac(v, d) == [k |-> "num", v |-> v, d |-> d]
NaN == [k |-> "nan", v |-> 0, d |-> 1]
PosInf == [k |-> "inf", v |-> 0, d |-> 1]
None == [k |-> "none", v |-> 0, d |-> 1]

\* pd.isna
IsNa(x) == x.k = "nan"

\* the integer nearest to n / d (d > 0), a tie going to the even one: what
\* rint() gives round(np.float64, 2) after the scaling by 100
RoundHalfEven(n, d) ==
    LET q == n \div d
        r == n % d
    IN IF 2 * r < d THEN q
       ELSE IF 2 * r > d THEN q + 1
       ELSE IF q % 2 = 0 THEN q ELSE q + 1

RECURSIVE Gcd(_, _)
Gcd(a, b) == IF b = 0 THEN a ELSE Gcd(b, a % b)

Lcm(a, b) == (a * b) \div Gcd(a, b)

RECURSIVE LcmUpTo(_)
LcmUpTo(n) == IF n <= 1 THEN 1 ELSE Lcm(n, LcmUpTo(n - 1))

\* a daily return is counted in units of 1 / ReturnUnit, which every close
\* of the model divides
ReturnUnit == LcmUpTo(MaxClose)

-----------------------------------------------------------------------------
(* pandas Series operations on the Close column (closes in whole units) *)

\* sum of the v of s[lo..hi] (halving keeps the evaluation shallow)
RECURSIVE SumV(_, _, _)
SumV(s, lo, hi) ==
    IF lo > hi THEN 0
    ELSE IF lo = hi THEN s[lo].v
    ELSE LET mid == (lo + hi) \div 2 IN SumV(s, lo, mid) + SumV(s, mid + 1, hi)

\* sum of the squares of the v of s[lo..hi]
RECURSIVE SumSq(_, _, _)
SumSq(s, lo, hi) ==
    IF lo > hi THEN 0
    ELSE IF lo = hi THEN s[lo].v * s[lo].v
    ELSE LET mid == (lo + hi) \div 2 IN SumSq(s, lo, mid) + SumSq(s, mid + 1, hi)

\* the last position of lo..hi that holds a value, 0 when all are NaN
RECURSIVE LastPresent(_, _, _)
LastPresent(s, lo, hi) ==
    IF lo > hi THEN 0
    ELSE IF lo = hi THEN (IF IsNa(s[lo]) THEN 0 ELSE lo)
    ELSE LET mid == (lo + hi) \div 2
             r == LastPresent(s, mid + 1, hi)
         IN IF r # 0 THEN r ELSE LastPresent(s, lo, mid)

\* round(x, 2) of a close in whole units, in hundredths; round(nan) is nan
Round2Close(x) == IF x.k = "num" THEN Num(100 * x.v) ELSE x

\* rolling mean of a mutated build: the mean of the whole series
RollingMeanAll(closes, window) ==
    LET n == Len(closes) IN
    IF n < window \/ \E i \in 1..n : IsNa(closes[i])
    THEN NaN
    ELSE Num(RoundHalfEven(100 * SumV(closes, 1, n), n))

\* Series.rolling(window).mean().iloc[-1]: min_periods is the window, so one
\* NaN in the trailing window gives NaN; then round(.., 2)
RollingMeanLast(closes, window) ==
    LET n == Len(closes) IN
    IF n < window \/ \E i \in (n - window + 1)..n : IsNa(closes[i])
    THEN NaN
    ELSE Num(RoundHalfEven(100 * SumV(closes, n - window + 1, n), window))

\* the larger (smaller) of two floats for max() (min()): NaN is skipped
MaxSkipNa(a, b) ==
    IF IsNa(a) THEN b ELSE IF IsNa(b) THEN a ELSE IF a.v >= b.v THEN a ELSE b

MinSkipNa(a, b) ==
    IF IsNa(a) THEN b ELSE IF IsNa(b) THEN a ELSE IF a.v <= b.v THEN a ELSE b

RECURSIVE MaxOf(_, _, _)
MaxOf(s, lo, hi) ==
    IF lo >= hi THEN s[lo]
    ELSE LET mid == (lo + hi) \div 2 IN
         MaxSkipNa(MaxOf(s, lo, mid), MaxOf(s, mid + 1, hi))

RECURSIVE MinOf(_, _, _)
MinOf(s, lo, hi) ==
    IF lo >= hi THEN s[lo]
    ELSE LET mid == (lo + hi) \div 2 IN
         MinSkipNa(MinOf(s, lo, mid), MinOf(s, mid + 1, hi))

\* Series.max() / Series.min() of a non-empty series: NaN skipped, NaN when
\* nothing is left
SeriesMax(closes) == MaxOf(closes, 1, Len(closes))

SeriesMin(closes) == MinOf(closes, 1, Len(closes))

\* forward fill (fill_method="pad") at position i: a NaN takes the last
\* value before it, and stays NaN when there is none
Ffill(s, i) ==
    IF ~IsNa(s[i]) THEN s[i]
    ELSE LET j == LastPresent(s, 1, i) IN IF j = 0 THEN NaN ELSE s[j]

\* cur / prev - 1 in float arithmetic, in units of 1 / ReturnUnit
Return(prev, cur) ==
    IF IsNa(prev) \/ IsNa(cur) THEN NaN
    ELSE IF prev.v = 0 THEN (IF cur.v = 0 THEN NaN ELSE PosInf)
    ELSE Num((cur.v - prev.v) * (ReturnUnit \div prev.v))

\* Series.pct_change(): the first element has no predecessor
PctChange(closes, pad) ==
    [i \in 1..Len(closes) |->
        IF i = 1 THEN NaN
        ELSE IF pad THEN Return(Ffill(closes, i - 1), Ffill(closes, i))
        ELSE Return(closes[i - 1], closes[i])]

\* Series.dropna(): NaN removed, inf kept
DropNa(s) == SelectSeq(s, LAMBDA x : ~IsNa(x))

\* np.std(daily_returns) * np.sqrt(252) * 100, kept as the variance of the
\* returns (a reduced fraction): the volatility is 100 * sqrt(252 * variance).
\* One infinite return makes the mean infinite and the deviation NaN.
StdAnnualised(returns) ==
    LET m == Len(returns)
        s1 == SumV(returns, 1, m)
        s2 == SumSq(returns, 1, m)
        vn == m * s2 - s1 * s1
        vd == m * m * ReturnUnit * ReturnUnit
        g == Gcd(vn, vd)
    IN IF \E i \in 1..m : returns[i].k = "inf" THEN NaN
       ELSE Frac(vn \div g, vd \div g)

\* volatility > 30 and volatility < 15 on the variance:
\* 252 * 10^4 * v / d > 900  and  252 * 10^4 * v / d < 225
VolAbove30(x) == x.v > x.d \div 2800
VolBelow15(x) == x.v <= (x.d - 1) \div 11200

-----------------------------------------------------------------------------
(* Program constants *)

\* window of sma_50
Sma50Window == 50
\* window of sma_200
Sma200Window == 200

-----------------------------------------------------------------------------
(* Exceptions, messages and responses *)

NoExc == [type |-> "none", status |-> 0, msg |-> <<>>]

\* HTTPException(status_code, detail)
HTTPException(status, detail) ==
    [type |-> "HTTPException", status |-> status, msg |-> detail]

\* str(status_code)
StatusStr(status) ==
    CASE status = 400 -> <<"4", "0", "0">>
      [] status = 404 -> <<"4", "0", "4">>
      [] status = 500 -> <<"5", "0", "0">>

\* str(e): the message of an ordinary exception; for an HTTPException
\* "<status>: <detail>" where starlette defines __str__, and "" where it does
\* not (the exception is made with keyword arguments only, so args is empty)
StrOfExc(e, how) ==
    IF e.type = "HTTPException"
    THEN (IF how = "status_detail"
          THEN StatusStr(e.status) \o <<": ">> \o e.msg
          ELSE <<>>)
    ELSE e.msg

\* "404" in text of a mutated build: every exception counts as not found
Has404Always(text) == TRUE

\* "404" in text
Has404(text) ==
    \E i \in 1..(Len(text) - 2) :
        text[i] = "4" /\ text[i + 1] = "0" /\ text[i + 2] = "4"

\* the prefix of the 500 detail of each service
ErrorPrefix(e) ==
    CASE e = "analysis" -> "Error performing analysis: "
      [] e = "historical" -> "Error retrieving historical data: "
      [] e = "info" -> "Error retrieving company data: "
      [] e = "stock" -> "Error retrieving stock data: "

\* the except clause of each handler: the HTTPException it raises for e
ExceptClause(ep, symbol, e, how) ==
    IF Has404(StrOfExc(e, how))
    THEN HTTPException(404, <<"Company symbol ">> \o symbol \o <<" not found">>)
    ELSE HTTPException(500, <<ErrorPrefix(ep)>> \o StrOfExc(e, how))

\* detail of the 404 raised for an empty DataFrame
NoDataDetail(symbol) ==
    <<"No data found for ">> \o symbol \o <<" in the specified date range">>

InvalidSymbolDetail == <<"Invalid company symbol">>
InvalidDateDetail == <<"Invalid date format. Use YYYY-MM-DD">>
DateOrderDetail == <<"End date cannot be before start date">>

NoBody == [kind |-> "none"]
NoResponse == [status |-> 0, error |-> <<>>, body |-> NoBody]

\* custom_http_exception_handler: JSONResponse(exc.status_code, {"error": exc.detail})
ErrorResponse(exc) == [status |-> exc.status, error |-> exc.msg, body |-> NoBody]

\* a returned response model: 200 with the model as the body
SuccessResponse(body) == [status |-> 200, error |-> <<>>, body |-> body]

\* str.upper()
UpperChar(c) == IF c = "x" THEN "X" ELSE c
Upper(s) == [i \in 1..Len(s) |-> UpperChar(s[i])]

-----------------------------------------------------------------------------
(* get_company_analysis: the metrics and insights of a non-empty series *)

PriceChangeAbsolute(closes) ==
    LET first_price == closes[1]
        last_price == closes[Len(closes)]
    IN IF ~IsNa(first_price) /\ ~IsNa(last_price)
       THEN Num(100 * (last_price.v - first_price.v))
       ELSE None

\* percent change of a mutated build: the zero test is missing, and the
\* float division by zero gives inf (or NaN for 0 / 0)
PriceChangePercentNoZeroTest(closes) ==
    LET first_price == closes[1]
        last_price == closes[Len(closes)]
    IN IF PriceChangeAbsolute(closes) = None THEN None
       ELSE IF first_price.v = 0
            THEN (IF last_price.v = 0 THEN NaN ELSE PosInf)
       ELSE Num(RoundHalfEven(10000 * (last_price.v - first_price.v), first_price.v))

\* the condition is evaluated before the division, left to right
PriceChangePercent(closes) ==
    LET first_price == closes[1]
        last_price == closes[Len(closes)]
    IN IF PriceChangeAbsolute(closes) # None /\ first_price.v # 0
       THEN Num(RoundHalfEven(10000 * (last_price.v - first_price.v), first_price.v))
       ELSE None

Volatility(closes, pad) ==
    LET daily_returns == DropNa(PctChange(closes, pad)) IN
    IF Len(daily_returns) > 0 THEN StdAnnualised(daily_returns) ELSE None

Sma(closes, window) ==
    IF Len(closes) >= window THEN RollingMeanLast(closes, window) ELSE None

RecentHigh(closes) ==
    IF Len(closes) > 0 THEN Round2Close(SeriesMax(closes)) ELSE None

RecentLow(closes) ==
    IF Len(closes) > 0 THEN Round2Close(SeriesMin(closes)) ELSE None

\* a > b of two floats: False as soon as one of them is NaN
Greater(a, b) == a.k = "num" /\ b.k = "num" /\ a.v > b.v

\* lines 102-107: the label the price change gives
TrendFromChange(pct) ==
    IF pct # None
    THEN (IF pct.k = "num" /\ pct.v > 500 THEN "Bullish"
          ELSE IF pct.k = "num" /\ pct.v < -500 THEN "Bearish"
          ELSE "Neutral")
    ELSE "Neutral"

\* the comparison of a mutated build: the crossover label always replaces
TrendAfterSmaOverride(trend, sma_50, sma_200) ==
    IF sma_50 # None /\ sma_200 # None
    THEN (IF Greater(sma_50, sma_200) THEN "Bullish (SMA crossover)"
          ELSE IF Greater(sma_200, sma_50) THEN "Bearish (SMA crossover)"
          ELSE trend)
    ELSE trend

\* lines 109-113: the label after the moving averages are compared
TrendAfterSma(trend, sma_50, sma_200) ==
    IF sma_50 # None /\ sma_200 # None
    THEN (IF Greater(sma_50, sma_200)
          THEN (IF trend # "Bullish" THEN "Bullish (SMA crossover)" ELSE trend)
          ELSE IF Greater(sma_200, sma_50)
          THEN (IF trend # "Bearish" THEN "Bearish (SMA crossover)" ELSE trend)
          ELSE trend)
    ELSE trend

TrendDirection(pct, sma_50, sma_200) ==
    TrendAfterSma(TrendFromChange(pct), sma_50, sma_200)

\* NaN > 30 and NaN < 15 are both False
VolatilityAssessment(volatility) ==
    IF volatility # None
    THEN (IF volatility.k = "num" /\ VolAbove30(volatility) THEN "High"
          ELSE IF volatility.k = "num" /\ VolBelow15(volatility) THEN "Low"
          ELSE "Moderate")
    ELSE "Moderate"

\* x if x else 'N/A': None and 0.0 are falsy, NaN is truthy
ShownOrNA(x) ==
    IF x = None \/ (x.k = "num" /\ x.v = 0) THEN [k |-> "N/A", v |-> 0, d |-> 1] ELSE x

\* 'Bullish' in trend_direction
IsBullishLabel(t) == t \in {"Bullish", "Bullish (SMA crossover)"}

\* str.lower() of a label
Lower(label) ==
    CASE label = "Bullish" -> "bullish"
      [] label = "Bearish" -> "bearish"
      [] label = "Neutral" -> "neutral"
      [] label = "Bullish (SMA crossover)" -> "bullish (sma crossover)"
      [] label = "Bearish (SMA crossover)" -> "bearish (sma crossover)"
      [] label = "High" -> "high"
      [] label = "Low" -> "low"
      [] label = "Moderate" -> "moderate"

\* the f-string, as the record of its interpolated parts
InvestmentConsiderations(trend, assessment, recent_high, recent_low) ==
    [trend |-> Lower(trend),
     volatility |-> Lower(assessment),
     points |-> IF IsBullishLabel(trend) THEN "entry" ELSE "exit",
     near |-> IF IsBullishLabel(trend) THEN "highs" ELSE "lows",
     high |-> ShownOrNA(recent_high),
     low |-> ShownOrNA(recent_low),
     remark |-> IF assessment = "Low" THEN "Long-term investors may find this stable"
                ELSE IF assessment = "High"
                THEN "Short-term traders may capitalize on price swings"
                ELSE "Balance risk with potential returns",
     ending |-> "Always consult a financial advisor."]

AnalysisMetrics(closes, pad) ==
    [price_change_absolute |-> PriceChangeAbsolute(closes),
     price_change_percent |-> PriceChangePercent(closes),
     volatility |-> Volatility(closes, pad),
     sma_50 |-> Sma(closes, Sma50Window),
     sma_200 |-> Sma(closes, Sma200Window),
     recent_high |-> RecentHigh(closes),
     recent_low |-> RecentLow(closes)]

Insight(m) ==
    LET trend == TrendDirection(m.price_change_percent, m.sma_50, m.sma_200)
        assessment == VolatilityAssessment(m.volatility)
    IN [trend_direction |-> trend,
        volatility_assessment |-> assessment,
        investment_considerations |->
            InvestmentConsiderations(trend, assessment, m.recent_high, m.recent_low)]

AnalysisResponse(symbol, closes, pad) ==
    LET m == AnalysisMetrics(closes, pad) IN
    [kind |-> "analysis", symbol |-> Upper(symbol), metrics |-> m, insights |-> Insight(m)]

\* one HistoricalDataPoint per row; of the five columns, all handled alike,
\* the model keeps Close
HistoricalDataPoint(close) ==
    IF ~IsNa(close) THEN Round2Close(close) ELSE None

HistoricalDataResponse(symbol, closes) ==
    [kind |-> "historical", symbol |-> Upper(symbol),
     data |-> [i \in 1..Len(closes) |-> HistoricalDataPoint(closes[i])]]

-----------------------------------------------------------------------------
(* get_stock_data and get_company_info: the response built from ticker.info *)

NoInfo == [officers |-> "absent", price |-> None, prev |-> None]

PercentageChange(cur, prev) ==
    IF cur # None /\ prev # None /\ prev.v # 0
    THEN Num(RoundHalfEven(10000 * (cur.v - prev.v), prev.v))
    ELSE None

StockDataResponse(symbol, i) ==
    [kind |-> "stock", symbol |-> Upper(symbol),
     current_price |-> i.price,
     percentage_change |-> PercentageChange(i.price, i.prev),
     previous_close |-> i.prev]

CompanyInfoResponse(symbol, officers) ==
    [kind |-> "info", symbol |-> Upper(symbol), officers |-> officers]

-----------------------------------------------------------------------------
(* Inputs *)

Endpoints == {"analysis", "historical", "info", "stock"}
PostEndpoints == {"analysis", "historical"}

\* "", "x.B", "A B"
SymbolInputs == {<<>>, <<"x", ".", "B">>, <<"A", " ", "B">>}

Date0105 == <<"2", "0", "2", "4", "-", "0", "1", "-", "0", "5">>
Date0301 == <<"2", "0", "2", "4", "-", "0", "3", "-", "0", "1">>
Date0230 == <<"2", "0", "2", "4", "-", "0", "2", "-", "3", "0">>
DateInputs == {Date0105, Date0301, Date0230}

\* what a provider access may raise
ProviderErrors ==
    {[type |-> "Exception", status |-> 0,
      msg |-> <<"HTTP Error ", "4", "0", "4", ": Not Found">>],
     [type |-> "Exception", status |-> 0, msg |-> <<"Connection timed out">>],
     [type |-> "KeyError", status |-> 0, msg |-> <<"'quoteSummary'">>],
     [type |-> "TypeError", status |-> 0,
      msg |-> <<"'NoneType' object is not subscriptable">>]}

CloseValues == {NaN} \cup {Num(v) : v \in 0..MaxClose}

\* every series of at most MaxShort closes, the empty DataFrame included
ShortSeries == UNION {[1..n -> CloseValues] : n \in 0..MaxShort}

Run(len, c) == [i \in 1..len |-> c]

\* series of three constant runs, long enough for both windows
RunLengths ==
    {t \in {0, 1, 150} \X {0, 1, 150} \X {49, 50} :
        t[1] + t[2] + t[3] <= Sma200Window + 1}

LongSeries ==
    {Run(t[1], a) \o Run(t[2], b) \o Run(t[3], c) :
        t \in RunLengths, a \in CloseValues, b \in CloseValues, c \in CloseValues}

\* what the installed pandas does in pct_change(): fill_method="pad" is the
\* default before pandas 3, no filling from pandas 3 on
PadFillBuilds == BOOLEAN

\* what the installed starlette gives for str(HTTPException)
StrOfHTTPExcBuilds == {"status_detail", "empty"}

SeriesInputs(ep) ==
    IF ep = "analysis" THEN ShortSeries \cup LongSeries ELSE ShortSeries

Prices == {None, Num(0), Num(2), Num(3)}

InfoInputs ==
    [officers : {"absent", "null", "list"}, price : Prices, prev : Prices]

OfficerList == <<[name |-> "name", title |-> "title"]>>

-----------------------------------------------------------------------------
(* The request handlers, step by step *)

NoRequest == [symbol |-> <<>>, start_date |-> <<>>, end_date |-> <<>>]

Init ==
    /\ pc = "idle"
    /\ endpoint = "none"
    /\ request = NoRequest
    /\ ticker = FALSE
    /\ calls = <<>>
    /\ hist_data = <<>>
    /\ info = NoInfo
    /\ raised = NoExc
    /\ provExc = NoExc
    /\ response = NoResponse
    /\ fn = "none"
    /\ arg = <<>>
    /\ ret = FALSE

\* the route decorators: a request reaches its handler
Receive ==
    /\ pc = "idle"
    /\ \E ep \in Endpoints, sym \in SymbolInputs :
        /\ endpoint' = ep
        /\ IF ep \in PostEndpoints
           THEN \E sd \in DateInputs, ed \in DateInputs :
                    request' = [symbol |-> sym, start_date |-> sd, end_date |-> ed]
           ELSE request' = [symbol |-> sym, start_date |-> <<>>, end_date |-> <<>>]
    /\ pc' = "validate_symbol"
    /\ UNCHANGED <<ticker, calls, hist_data, info,
                   raised, provExc, response, fn, arg, ret>>

\* the symbol check of a mutated build: the raise is inside the try block
CheckSymbolInsideTry ==
    /\ pc = "validate_symbol"
    /\ IF Len(request.symbol) = 0 \/ ~validate_symbol(request.symbol)
       THEN /\ raised' = HTTPException(400, <<"Invalid company symbol">>)
            /\ pc' = "except"
       ELSE /\ raised' = raised
            /\ pc' = IF endpoint \in {"analysis", "historical"}
                     THEN "validate_dates" ELSE "ticker"
    /\ UNCHANGED <<endpoint, request, ticker, calls, hist_data, info, provExc,
                   response, fn, arg, ret>>

\* if not symbol or not validate_symbol(symbol): raise HTTPException(400),
\* outside the try block
CheckSymbol ==
    /\ pc = "validate_symbol"
    /\ IF Len(request.symbol) = 0 \/ ~validate_symbol(request.symbol)
       THEN /\ raised' = HTTPException(400, InvalidSymbolDetail)
            /\ pc' = "http_exception"
       ELSE /\ raised' = raised
            /\ pc' = IF endpoint \in PostEndpoints THEN "validate_dates" ELSE "ticker"
    /\ UNCHANGED <<endpoint, request, ticker, calls, hist_data, info, provExc,
                   response, fn, arg, ret>>

\* if not validate_date(start_date) or not validate_date(end_date): raise
\* HTTPException(400), outside the try block
CheckDates ==
    /\ pc = "validate_dates"
    /\ IF ~validate_date(request.start_date) \/ ~validate_date(request.end_date)
       THEN /\ raised' = HTTPException(400, InvalidDateDetail)
            /\ pc' = "http_exception"
       ELSE /\ raised' = raised
            /\ pc' = "date_order"
    /\ UNCHANGED <<endpoint, request, ticker, calls, hist_data, info, provExc,
                   response, fn, arg, ret>>

\* inside try: if end_date < start_date: raise HTTPException(400)
CheckDateOrder ==
    /\ pc = "date_order"
    /\ IF DateLess(strptime(request.end_date), strptime(request.start_date))
       THEN /\ raised' = HTTPException(400, DateOrderDetail)
            /\ pc' = "except"
       ELSE /\ raised' = raised
            /\ pc' = "ticker"
    /\ UNCHANGED <<endpoint, request, ticker, calls, hist_data, info, provExc,
                   response, fn, arg, ret>>

\* a provider access raises e inside the try block
ProviderRaises(e) ==
    /\ raised' = e
    /\ provExc' = e
    /\ pc' = "except"

\* ticker = yf.Ticker(symbol)
CreateTicker ==
    /\ pc = "ticker"
    /\ calls' = Append(calls, "Ticker")
    /\ \/ /\ ticker' = TRUE
          /\ pc' = IF endpoint \in PostEndpoints THEN "history" ELSE "info"
          /\ UNCHANGED <<raised, provExc>>
       \/ /\ \E e \in ProviderErrors : ProviderRaises(e)
          /\ UNCHANGED ticker
    /\ UNCHANGED <<endpoint, request, hist_data, info,
                   response, fn, arg, ret>>

\* hist_data = ticker.history(start=..., end=...)
TickerHistory ==
    /\ pc = "history"
    /\ calls' = Append(calls, "history")
    /\ \/ /\ \E df \in SeriesInputs(endpoint) : hist_data' = df
          /\ pc' = "fetched"
          /\ UNCHANGED <<raised, provExc>>
       \/ /\ \E e \in ProviderErrors : ProviderRaises(e)
          /\ UNCHANGED hist_data
    /\ UNCHANGED <<endpoint, request, ticker, info,
                   response, fn, arg, ret>>

\* if hist_data.empty: raise HTTPException(404), inside the try block
NoDataFound ==
    /\ pc = "fetched"
    /\ Len(hist_data) = 0
    /\ raised' = HTTPException(404, NoDataDetail(request.symbol))
    /\ pc' = "except"
    /\ UNCHANGED <<endpoint, request, ticker, calls, hist_data, info, provExc,
                   response, fn, arg, ret>>

\* get_company_analysis, from "Calculate metrics" to return response
ComputeAnalysis ==
    /\ pc = "fetched"
    /\ endpoint = "analysis"
    /\ Len(hist_data) > 0
    /\ \E pad \in PadFillBuilds :
        response' = SuccessResponse(AnalysisResponse(request.symbol, hist_data, pad))
    /\ pc' = "done"
    /\ UNCHANGED <<endpoint, request, ticker, calls, hist_data, info, raised,
                   provExc, fn, arg, ret>>

\* get_historical_stock_data, from "Prepare response" to return response
BuildHistorical ==
    /\ pc = "fetched"
    /\ endpoint = "historical"
    /\ Len(hist_data) > 0
    /\ response' = SuccessResponse(HistoricalDataResponse(request.symbol, hist_data))
    /\ pc' = "done"
    /\ UNCHANGED <<endpoint, request, ticker, calls, hist_data, info, raised,
                   provExc, fn, arg, ret>>

\* info = ticker.info
TickerInfo ==
    /\ pc = "info"
    /\ calls' = Append(calls, "info")
    /\ \/ /\ \E i \in InfoInputs : info' = i
          /\ pc' = IF endpoint = "info" THEN "officers" ELSE "quote"
          /\ UNCHANGED <<raised, provExc>>
       \/ /\ \E e \in ProviderErrors : ProviderRaises(e)
          /\ UNCHANGED info
    /\ UNCHANGED <<endpoint, request, ticker, hist_data,
                   response, fn, arg, ret>>

\* get_stock_data, from "Calculate percentage change" to return response
BuildStockData ==
    /\ pc = "quote"
    /\ response' = SuccessResponse(StockDataResponse(request.symbol, info))
    /\ pc' = "done"
    /\ UNCHANGED <<endpoint, request, ticker, calls, hist_data, info, raised,
                   provExc, fn, arg, ret>>

\* the officers the inner try block leaves when the second ticker.info
\* access raises e (NoExc: it returns): KeyError and TypeError, also the
\* TypeError of iterating None, leave the empty list
OfficersAfter(e, i) ==
    IF e # NoExc THEN <<>>
    ELSE IF i.officers = "list" THEN OfficerList
    ELSE <<>>

\* whether the inner except clause catches e
InnerCatches(e) == e.type \in {"KeyError", "TypeError"}

\* get_company_info, from "Extract officer information" to return response
ExtractOfficers ==
    /\ pc = "officers"
    /\ calls' = Append(calls, "info")
    /\ \E e \in ProviderErrors \cup {NoExc} :
        IF e = NoExc \/ InnerCatches(e)
        THEN /\ response' =
                  SuccessResponse(CompanyInfoResponse(request.symbol, OfficersAfter(e, info)))
             /\ provExc' = e
             /\ pc' = "done"
             /\ UNCHANGED raised
        ELSE /\ ProviderRaises(e)
             /\ UNCHANGED response
    /\ UNCHANGED <<endpoint, request, ticker, hist_data,
                   info, fn, arg, ret>>

\* except Exception as e: raise HTTPException(404 or 500)
HandleException ==
    /\ pc = "except"
    /\ \E how \in StrOfHTTPExcBuilds :
        raised' = ExceptClause(endpoint, request.symbol, raised, how)
    /\ pc' = "http_exception"
    /\ UNCHANGED <<endpoint, request, ticker, calls, hist_data, info, provExc,
                   response, fn, arg, ret>>

\* @app.exception_handler(HTTPException)
custom_http_exception_handler ==
    /\ pc = "http_exception"
    /\ response' = ErrorResponse(raised)
    /\ pc' = "done"
    /\ UNCHANGED <<endpoint, request, ticker, calls, hist_data, info, raised,
                   provExc, fn, arg, ret>>

Next ==
    \/ Receive
    \/ CheckSymbol
    \/ CheckDates
    \/ CheckDateOrder
    \/ CreateTicker
    \/ TickerHistory
    \/ NoDataFound
    \/ ComputeAnalysis
    \/ BuildHistorical
    \/ TickerInfo
    \/ BuildStockData
    \/ ExtractOfficers
    \/ HandleException
    \/ custom_http_exception_handler

Spec == Init /\ [][Next]_vars

-----------------------------------------------------------------------------
(* The validators called on their own *)

SymAlphabet == {"A", "1", ".", " ", "-"}

\* every string of at most MaxSymLen characters of SymAlphabet
SymbolStrings == UNION {[1..n -> SymAlphabet] : n \in 0..MaxSymLen}

YearParts ==
    {<<"2", "0", "2", "4">>, <<"2", "0", "2", "3">>, <<"1", "9", "0", "0">>,
     <<"2", "0", "0", "0">>, <<"0", "0", "0", "0">>, <<"2", "4">>,
     <<"2", "0", "x", "4">>}

MonthParts ==
    {<<"0", "1">>, <<"1">>, <<"0", "2">>, <<"2">>, <<"0", "4">>, <<"1", "2">>,
     <<"1", "3">>, <<"0", "0">>, <<"0">>, <<" ", "2">>}

DayParts ==
    {<<"0", "5">>, <<"5">>, <<"2", "8">>, <<"2", "9">>, <<"3", "0">>,
     <<"3", "1">>, <<"3", "2">>, <<"0", "0">>, <<" ", "5">>}

Separators == {<<"-">>, <<"/">>, <<>>}

Tails == {<<>>, <<" ">>, <<"x">>}

\* year, month and day parts joined by separators, with or without a tail
DateStrings ==
    {y \o s1 \o m \o s2 \o d \o t :
        y \in YearParts, s1 \in Separators, m \in MonthParts,
        s2 \in Separators, d \in DayParts, t \in Tails}

CallValidateSymbol ==
    /\ fn = "none"
    /\ \E s \in SymbolStrings :
        /\ arg' = s
        /\ ret' = validate_symbol(s)
    /\ fn' = "validate_symbol"
    /\ UNCHANGED <<pc, endpoint, request, ticker, calls, hist_data, info,
                   raised, provExc, response>>

CallValidateDate ==
    /\ fn = "none"
    /\ \E s \in DateStrings :
        /\ arg' = s
        /\ ret' = validate_date(s)
    /\ fn' = "validate_date"
    /\ UNCHANGED <<pc, endpoint, request, ticker, calls, hist_data, info,
                   raised, provExc, response>>

NextValidate == CallValidateSymbol \/ CallValidateDate

SpecValidate == Init /\ [][NextValidate]_vars

-----------------------------------------------------------------------------
(* Properties of the validators *)

\* non-empty, only alphanumerics and dots, no dot first, last or doubled
DottedAlnum(s) ==
    /\ Len(s) > 0
    /\ \A i \in 1..Len(s) : IsAlnumChar(s[i]) \/ s[i] = "."
    /\ s[1] # "." /\ s[Len(s)] # "."
    /\ \A i \in 1..(Len(s) - 1) : ~(s[i] = "." /\ s[i + 1] = ".")

\* exactly four digits, "-", two digits, "-", two digits, and a date of the
\* calendar
StrictDate(s) ==
    /\ Len(s) = 10
    /\ \A i \in {1, 2, 3, 4, 6, 7, 9, 10} : s[i] \in Digits
    /\ s[5] = "-" /\ s[8] = "-"
    /\ LET y == 1000 * DigitVal(s[1]) + 100 * DigitVal(s[2])
                + 10 * DigitVal(s[3]) + DigitVal(s[4])
           m == 10 * DigitVal(s[6]) + DigitVal(s[7])
           d == 10 * DigitVal(s[9]) + DigitVal(s[10])
       IN /\ y >= 1
          /\ m \in 1..12
          /\ d \in 1..DaysInMonth(y, m)

\* C6: validate_date(s) is true if and only if s has exactly the form
\* YYYY-MM-DD (zero-padded month and day) and is a real calendar date; the
\* code accepts "2024-1-5" and "2024-01- 5", so this fails on it
C6_ValidateDateIsStrict ==
    fn = "validate_date" => (ret <=> StrictDate(arg))

\* C7: validate_symbol(s) is true if and only if s is non-empty and is
\* alphanumeric or a dot-separated sequence of non-empty alphanumeric
\* segments: false for "", for a leading, trailing or doubled dot, and for a
\* string with whitespace or other punctuation
C7_ValidateSymbol ==
    fn = "validate_symbol" => (ret <=> DottedAlnum(arg))

\* a dotted ticker was accepted
C7_Witness ==
    /\ fn = "validate_symbol"
    /\ ret
    /\ Contains(arg, ".")
    /\ Len(arg) >= 3

-----------------------------------------------------------------------------
(* Properties of the request handlers *)

InvalidSymbol == Len(request.symbol) = 0 \/ ~validate_symbol(request.symbol)

InvalidDates ==
    /\ endpoint \in PostEndpoints
    /\ ~validate_date(request.start_date) \/ ~validate_date(request.end_date)

\* a POST request that passes both validations and has start_date after
\* end_date
ReversedRange ==
    /\ endpoint \in PostEndpoints
    /\ ~InvalidSymbol
    /\ ~InvalidDates
    /\ DateLess(strptime(request.end_date), strptime(request.start_date))

\* C1: a syntactically valid POST request with start_date later than
\* end_date ends with HTTP 400, and no provider call is made during it.  The
\* 400 is raised inside the try block and the except clause turns it into a
\* 500, so this fails on the code.
C1_ReversedRangeGets400 ==
    ReversedRange =>
        /\ ~ticker
        /\ calls = <<>>
        /\ pc = "done" => response.status = 400

\* ticker.history returned an empty DataFrame and the request is answered
EmptySeriesAnswered ==
    /\ pc = "done"
    /\ endpoint \in PostEndpoints
    /\ calls = <<"Ticker", "history">>
    /\ provExc = NoExc
    /\ Len(hist_data) = 0

\* C2: a valid request for which the provider returns an empty series ends
\* with HTTP 404 whose message is "No data found for <symbol> in the
\* specified date range".  The except clause replaces that exception, so this
\* fails on the code.
C2_EmptySeriesGetsNoDataMessage ==
    EmptySeriesAnswered =>
        /\ response.status = 404
        /\ response.error = NoDataDetail(request.symbol)

\* the message holds the not-found marker, the characters 4, 0, 4 in a row
NotFoundMarker(text) ==
    \E i \in 1..Len(text) :
        i + 2 <= Len(text) /\ SubSeq(text, i, i + 2) = <<"4", "0", "4">>

\* the error response the claim gives for the provider's exception
ProviderErrorMapped ==
    /\ response.body = NoBody
    /\ IF NotFoundMarker(provExc.msg)
       THEN response.status = 404
       ELSE /\ response.status = 500
            /\ response.error = <<ErrorPrefix(endpoint)>> \o provExc.msg

\* the second ticker.info access of get_company_info raised a KeyError or a
\* TypeError
OfficersAccessFailedQuietly ==
    /\ endpoint = "info"
    /\ calls = <<"Ticker", "info", "info">>
    /\ provExc.type \in {"KeyError", "TypeError"}

C4_InvalidRequestRejected ==
    (pc # "idle" /\ (InvalidSymbol \/ InvalidDates)) =>
        /\ ~ticker
        /\ calls = <<>>
        /\ pc = "done" =>
            response = [status |-> 400,
                        error |-> IF InvalidSymbol THEN InvalidSymbolDetail
                                  ELSE InvalidDateDetail,
                        body |-> NoBody]

\* a request with a bad symbol and a bad date was answered
C4_Witness ==
    /\ pc = "done"
    /\ InvalidSymbol
    /\ InvalidDates
    /\ response.status = 400
    /\ response.error = InvalidSymbolDetail

\* the analysis endpoint answered with a success
AnalysisSucceeded ==
    /\ pc = "done"
    /\ endpoint = "analysis"
    /\ response.status = 200

FiniteOrMissing(x) == x.k \in {"num", "none"}

\* C5: each of the seven metrics of a success response is a finite number or
\* null.  A NaN close in the SMA window, a series of NaN only, and a zero
\* close followed by a non-zero one all put NaN in the response, so this
\* fails on the code.
C5_MetricsFiniteOrMissing ==
    AnalysisSucceeded =>
        LET m == response.body.metrics IN
        /\ FiniteOrMissing(m.price_change_absolute)
        /\ FiniteOrMissing(m.price_change_percent)
        /\ FiniteOrMissing(m.volatility)
        /\ FiniteOrMissing(m.sma_50)
        /\ FiniteOrMissing(m.sma_200)
        /\ FiniteOrMissing(m.recent_high)
        /\ FiniteOrMissing(m.recent_low)

Abs(x) == IF x < 0 THEN -x ELSE x

\* sma is missing below window points; from window points on it is present
\* and is the mean of the trailing window closes to the nearest hundredth
\* (NaN, the float mean, when a close of that window is missing)
SmaAsClaimed(closes, window, sma) ==
    LET n == Len(closes) IN
    IF n < window THEN sma = None
    ELSE /\ sma # None
         /\ IF \E i \in (n - window + 1)..n : IsNa(closes[i])
            THEN sma = NaN
            ELSE /\ sma.k = "num"
                 /\ 2 * Abs(100 * SumV(closes, n - window + 1, n) - window * sma.v)
                        <= window

\* C8: sma_50 (sma_200) is missing for fewer than 50 (200) closes, and
\* otherwise is the mean of exactly the trailing 50 (200) closes, rounded to
\* two decimals, with no partial-window averaging
C8_SmaTrailingWindow ==
    AnalysisSucceeded =>
        /\ SmaAsClaimed(hist_data, Sma50Window, response.body.metrics.sma_50)
        /\ SmaAsClaimed(hist_data, Sma200Window, response.body.metrics.sma_200)

\* a series of more than 50 closes that are not all equal got its sma_50
C8_Witness ==
    /\ AnalysisSucceeded
    /\ Len(hist_data) = Sma50Window + 1
    /\ hist_data[1] = Num(1)
    /\ hist_data[Len(hist_data)] = Num(2)
    /\ response.body.metrics.sma_50 = Num(200)
    /\ response.body.metrics.sma_200 = None

\* ticker.history returned a series whose first close is 0 and the request
\* is answered
FirstCloseZero ==
    /\ pc = "done"
    /\ endpoint = "analysis"
    /\ calls = <<"Ticker", "history">>
    /\ provExc = NoExc
    /\ Len(hist_data) > 0
    /\ hist_data[1] = Num(0)

\* C9: for a series whose first close is 0 the request succeeds,
\* price_change_percent is missing, and price_change_absolute is last minus
\* first, missing only when the last close is missing
C9_ZeroFirstClose ==
    FirstCloseZero =>
        LET last == hist_data[Len(hist_data)] IN
        /\ response.status = 200
        /\ response.body.metrics.price_change_percent = None
        /\ response.body.metrics.price_change_absolute =
               IF IsNa(last) THEN None ELSE Num(100 * last.v)

\* first close 0, last close 2: percent missing, absolute 2.00
C9_Witness ==
    /\ FirstCloseZero
    /\ Len(hist_data) > 1
    /\ hist_data[Len(hist_data)] = Num(2)
    /\ response.body.metrics.price_change_percent = None
    /\ response.body.metrics.price_change_absolute = Num(200)

TrendLabels ==
    {"Bullish", "Bearish", "Neutral", "Bullish (SMA crossover)",
     "Bearish (SMA crossover)"}

\* the label the claim gives for a percent change and two moving averages
TrendAsClaimed(pct, sma_50, sma_200) ==
    LET base == IF pct.k = "num" /\ pct.v > 500 THEN "Bullish"
                ELSE IF pct.k = "num" /\ pct.v < -500 THEN "Bearish"
                ELSE "Neutral"
        both == sma_50 # None /\ sma_200 # None
    IN CASE both /\ Greater(sma_50, sma_200) /\ base = "Bullish" -> "Bullish"
         [] both /\ Greater(sma_50, sma_200) /\ base # "Bullish" ->
                "Bullish (SMA crossover)"
         [] both /\ Greater(sma_200, sma_50) /\ base = "Bearish" -> "Bearish"
         [] both /\ Greater(sma_200, sma_50) /\ base # "Bearish" ->
                "Bearish (SMA crossover)"
         [] OTHER -> base

\* C10: trend_direction is the function of (price_change_percent, sma_50,
\* sma_200) the claim describes: Bullish above 5, Bearish below -5, else
\* Neutral; with both SMAs present a crossover label replaces it unless it is
\* already the plain label of the same direction; always one of five labels
C10_TrendDirection ==
    AnalysisSucceeded =>
        LET m == response.body.metrics
            t == response.body.insights.trend_direction
        IN /\ t = TrendAsClaimed(m.price_change_percent, m.sma_50, m.sma_200)
           /\ t \in TrendLabels

\* a rising series, percent change above 5 and sma_50 above sma_200: Bullish
C10_Witness ==
    /\ AnalysisSucceeded
    /\ response.body.metrics.price_change_percent.k = "num"
    /\ response.body.metrics.price_change_percent.v > 500
    /\ Greater(response.body.metrics.sma_50, response.body.metrics.sma_200)
    /\ response.body.insights.trend_direction = "Bullish"

\* the 'N/A' placeholder of the text
NotAvailable == [k |-> "N/A", v |-> 0, d |-> 1]

\* what the claim has the text show for a metric: the metric itself when it
\* is present, the placeholder only when it is missing
ShownAsClaimed(metric) == IF metric = None THEN NotAvailable ELSE metric

\* C11: in every successful analysis response investment_considerations
\* shows the actual recent_high (recent_low) whenever it is present, 'N/A'
\* only when it is missing, and ends with the disclaimer; also for a recent
\* high or low of 0.  The text is built with `x if x else 'N/A'`, and 0.0 is
\* falsy, so a recent low (or high) of 0 is shown as 'N/A': this fails on the
\* code.
C11_TextShowsRecentHighLow ==
    AnalysisSucceeded =>
        LET m == response.body.metrics
            text == response.body.insights.investment_considerations
        IN /\ text.high = ShownAsClaimed(m.recent_high)
           /\ text.low = ShownAsClaimed(m.recent_low)
           /\ text.ending = "Always consult a financial advisor."

====
